---- MODULE Spec2Model ----
(***************************************************************************)
(* Price tracker: main() runs cycles forever; each cycle builds a          *)
(* PriceTracker (opens the database connection), fetches the stock list,   *)
(* and calls update_product once per item, each call being one database    *)
(* transaction on the tables products and price_history.                   *)
(*                                                                         *)
(* The program is single-threaded and the database has this one writer,    *)
(* so one action is one whole call: the statements of update_product run   *)
(* on the transaction's working copy of the tables, and the action ends    *)
(* with the commit or the rollback the code performs.  The variables       *)
(* products and price_history are the COMMITTED tables.                    *)
(*                                                                         *)
(* The fetched list is read by the for loop one element at a time; the     *)
(* model draws each element when the loop reaches it, and the list may end *)
(* after any element, so lists of every length are covered.                *)
(*                                                                         *)
(* The columns last_updated, timestamp and id are assigned by the database *)
(* (clock, sequence) and are not tracked: price_history is kept in id      *)
(* order.                                                                  *)
(***************************************************************************)
EXTENDS Integers, Sequences, FiniteSets, TLC

\* ------------------------------------------------------------------ bounds
\* most rows of price_history
MaxHist == 2

\* ------------------------------------------------- decimals (decimal.Decimal)
\* A decimal is coef * 10^(-scale); the digits and the scale are both kept,
\* as Decimal keeps them: 0.01 is Dec(1, 2) and 0.010 is Dec(10, 3).
Dec(c, s) == [coef |-> c, scale |-> s]

RECURSIVE Pow10(_)
Pow10(n) == IF n = 0 THEN 1 ELSE 10 * Pow10(n - 1)

\* Decimal.__eq__ / __ne__: comparison of the numeric values
DecEq(a, b) == a.coef * Pow10(b.scale) = b.coef * Pow10(a.scale)

\* the scale of the columns current_price and price: DECIMAL(10, 2)
PriceScale == 2

\* What a DECIMAL(10, 2) column keeps of a value written to it: the value
\* rounded to two places, halves away from zero (PostgreSQL numeric).
ColumnValue(d) ==
    IF d.scale <= PriceScale
    THEN Dec(d.coef * Pow10(PriceScale - d.scale), PriceScale)
    ELSE LET unit == Pow10(d.scale - PriceScale)
             q == d.coef \div unit
             r == d.coef % unit
         IN  Dec(IF 2 * r >= unit THEN q + 1 ELSE q, PriceScale)

\* ------------------------------------------------------------ item records
SKUs == {"SKU1", "SKU2"}

\* observed prices: 0.01, 0.02 (one cent apart), 0.010 (0.01 with a trailing
\* zero) and 0.015 (more places than the column keeps: it is rounded to 0.02)
Prices == {Dec(1, 2), Dec(2, 2), Dec(10, 3), Dec(15, 3)}

StockLevels == {3, 5}

AllKeys == {"sku", "model", "color", "price", "in_stock", "ean", "cat_name"}

\* An element of the "stock" list.  kind is "dict" for a JSON object and
\* "str" for any JSON value that is no object; keys are the keys the object
\* has; price_ok is FALSE when the price is no decimal literal.
Item(kind, keys, sku, price, price_ok, in_stock) ==
    [kind |-> kind, keys |-> keys, sku |-> sku, model |-> "m1", color |-> "c1",
     price |-> price, price_ok |-> price_ok, in_stock |-> in_stock,
     ean |-> "e1", cat_name |-> "k1"]

GoodItems ==
    {Item("dict", AllKeys, s, p, TRUE, n) : s \in SKUs, p \in Prices, n \in StockLevels}

BadItems ==
    {Item("dict", AllKeys \ {"price"}, "SKU1", Dec(0, 0), TRUE, 3),
     Item("dict", AllKeys, "SKU1", Dec(0, 0), FALSE, 3),
     Item("dict", AllKeys \ {"sku"}, "", Dec(1, 2), TRUE, 3),
     Item("str", {}, "", Dec(0, 0), FALSE, 0)}

\* SKU1 under another model and color and without the optional keys ean
\* and cat_name
RelabelledItems ==
    {[Item("dict", AllKeys \ {"ean", "cat_name"}, "SKU1", Dec(1, 2), TRUE, 3)
        EXCEPT !.model = "m2", !.color = "c2"]}

Items == GoodItems \cup RelabelledItems \cup BadItems

NoItem == Item("none", {}, "", Dec(0, 0), FALSE, 0)

\* product[key]: raises (FALSE here) unless product is a dict with the key
HasKey(product, key) == product.kind = "dict" /\ key \in product.keys

\* ---------------------------------------------------------------- tables
\* products: a set of rows, PRIMARY KEY sku.  price_history: the rows in id
\* order, sku REFERENCES products(sku).
\* Row with the stock level left at a default
RowDefaultStock(product, price) ==
    [sku |-> product.sku, model |-> product.model, color |-> product.color,
     current_price |-> ColumnValue(price), stock_level |-> 0,
     ean |-> IF "ean" \in product.keys THEN product.ean ELSE "",
     category |-> IF "cat_name" \in product.keys THEN product.cat_name ELSE ""]

Row(product, price) ==
    [sku |-> product.sku, model |-> product.model, color |-> product.color,
     current_price |-> ColumnValue(price), stock_level |-> product.in_stock,
     ean |-> IF "ean" \in product.keys THEN product.ean ELSE "",
     category |-> IF "cat_name" \in product.keys THEN product.cat_name ELSE ""]

HistoryRow(sku, price, stock) ==
    [sku |-> sku, price |-> ColumnValue(price), stock_level |-> stock]

Tables(p, h) == [products |-> p, price_history |-> h]

RowsOf(tbl, sku) == {r \in tbl : r.sku = sku}

\* SELECT current_price FROM products WHERE sku = %s, then fetchone():
\* the set holding the one matching row's price, or the empty set for None
SelectCurrentPrice(tx, sku) == {r.current_price : r \in RowsOf(tx.products, sku)}

\* the PRIMARY KEY constraint of products, checked by INSERT
PrimaryKeyFree(tx, sku) == RowsOf(tx.products, sku) = {}

\* the REFERENCES constraint of price_history, checked by INSERT
ForeignKeyHolds(tx, sku) == RowsOf(tx.products, sku) # {}

\* INSERT INTO products (sku, model, color, current_price, stock_level, ean, category)
InsertProduct(tx, product, new_price) ==
    Tables(tx.products \cup {Row(product, new_price)}, tx.price_history)

\* InsertHistory as an upsert that keeps one history row per sku
InsertHistoryReplace(tx, product, new_price) ==
    Tables(tx.products,
           Append(SelectSeq(tx.price_history, LAMBDA e : e.sku # product.sku),
                  HistoryRow(product.sku, new_price, product.in_stock)))

\* INSERT INTO price_history (sku, price, stock_level)
InsertHistory(tx, product, new_price) ==
    Tables(tx.products,
           Append(tx.price_history, HistoryRow(product.sku, new_price, product.in_stock)))

\* UpdateProductRow without the WHERE clause
UpdateEveryRow(tx, product, new_price) ==
    Tables({[r EXCEPT !.current_price = ColumnValue(new_price),
                      !.stock_level = product.in_stock] : r \in tx.products},
           tx.price_history)

\* UpdateProductRow as a full overwrite of the row with the item
UpdateAllColumns(tx, product, new_price) ==
    Tables({IF r.sku = product.sku THEN Row(product, new_price) ELSE r : r \in tx.products},
           tx.price_history)

\* UpdateProductRow setting the stock level only
UpdateStockOnly(tx, product, new_price) ==
    Tables({IF r.sku = product.sku
            THEN [r EXCEPT !.stock_level = product.in_stock]
            ELSE r : r \in tx.products},
           tx.price_history)

\* UpdateProductRow setting the price only
UpdatePriceOnly(tx, product, new_price) ==
    Tables({IF r.sku = product.sku
            THEN [r EXCEPT !.current_price = ColumnValue(new_price)]
            ELSE r : r \in tx.products},
           tx.price_history)

\* UPDATE products SET current_price, stock_level, last_updated WHERE sku = %s
UpdateProductRow(tx, product, new_price) ==
    Tables({IF r.sku = product.sku
            THEN [r EXCEPT !.current_price = ColumnValue(new_price),
                           !.stock_level = product.in_stock]
            ELSE r : r \in tx.products},
           tx.price_history)

\* self.db_conn.commit(): the working copy becomes the committed tables
Commit(committed, work) == work

\* Rollback on a connection in autocommit mode: the statements already run stay
RollbackKeeps(committed, work) == work

\* self.db_conn.rollback(): the committed tables stay
Rollback(committed, work) == committed

\* ---------------------------------------------------------- update_product
\* where a database error is injected into one call
Faults == {"none", "select", "insert_product", "insert_history", "update", "commit"}

Result(tables, raised, outcome, logged) ==
    [tables |-> tables, raised |-> raised, outcome |-> outcome, logged |-> logged]

\* except Exception: rollback, log with product['sku'], re-raise.  The log
\* line is not written when product['sku'] itself raises.
Handler(committed, work, product, logged) ==
    Result(Rollback(committed, work), TRUE, "Failed",
           logged \cup (IF HasKey(product, "sku") THEN {"update_error"} ELSE {}))

\* PriceDiffers on the texts of the two prices
PriceDiffersText(current_price, new_price) == current_price # new_price

\* PriceDiffers on the whole-unit parts of the two prices
PriceDiffersWhole(current_price, new_price) ==
    current_price.coef \div Pow10(current_price.scale)
        # new_price.coef \div Pow10(new_price.scale)

\* current_price != new_price
PriceDiffers(current_price, new_price) == ~DecEq(current_price, new_price)

\* the branch for a sku with no row
InsertBranch(committed, product, new_price, fault) ==
    IF \/ ~HasKey(product, "model") \/ ~HasKey(product, "color")
       \/ ~HasKey(product, "in_stock")
       \/ ~PrimaryKeyFree(committed, product.sku)
       \/ fault = "insert_product"
    THEN Handler(committed, committed, product, {})
    ELSE LET tx1 == InsertProduct(committed, product, new_price) IN
         IF ~ForeignKeyHolds(tx1, product.sku) \/ fault = "insert_history"
         THEN Handler(committed, tx1, product, {})
         ELSE LET tx2 == InsertHistory(tx1, product, new_price) IN
              IF fault = "commit"
              THEN Handler(committed, tx2, product, {"added_new"})
              ELSE Result(Commit(committed, tx2), FALSE, "Inserted", {"added_new"})

\* the branch for a sku that has a row, current_price being its stored price
UpdateBranch(committed, product, current_price, new_price, fault) ==
    IF ~HasKey(product, "in_stock") \/ fault = "update"
    THEN Handler(committed, committed, product, {})
    ELSE LET tx1 == UpdateProductRow(committed, product, new_price) IN
         IF PriceDiffers(current_price, new_price)
         THEN IF ~ForeignKeyHolds(tx1, product.sku) \/ fault = "insert_history"
              THEN Handler(committed, tx1, product, {})
              ELSE LET tx2 == InsertHistory(tx1, product, new_price) IN
                   IF fault = "commit"
                   THEN Handler(committed, tx2, product, {"price_change"})
                   ELSE Result(Commit(committed, tx2), FALSE, "UpdatedWithHistory",
                               {"price_change"})
         ELSE IF fault = "commit"
              THEN Handler(committed, tx1, product, {})
              ELSE Result(Commit(committed, tx1), FALSE, "UpdatedNoHistory", {})

update_product(committed, product, fault) ==
    IF ~HasKey(product, "sku") \/ fault = "select"
    THEN Handler(committed, committed, product, {})
    ELSE LET result == SelectCurrentPrice(committed, product.sku) IN
         IF ~HasKey(product, "price") \/ ~product.price_ok
         THEN Handler(committed, committed, product, {})
         ELSE LET new_price == product.price IN
              IF result = {}
              THEN InsertBranch(committed, product, new_price, fault)
              ELSE UpdateBranch(committed, product, CHOOSE c \in result : TRUE,
                                new_price, fault)

\* ------------------------------------------------------------------ state
VARIABLES
    pc,             \* where main() is: "start", "fetch", "loop", "loop_end", "sleep"
    db_conn,        \* this cycle's tracker.db_conn: "none", "open", "closed"
    open_conns,     \* connections the process holds open on the server
    stock_data,     \* this cycle's response body: "none" before it is fetched
    product,        \* the element of the latest update_product call
    outcome,        \* how that call ended
    logged,         \* the log lines written by the latest step
    sleep_secs,     \* the argument of the time.sleep in progress
    products,       \* committed table products
    price_history   \* committed table price_history

vars == <<pc, db_conn, open_conns, stock_data, product, outcome, logged, sleep_secs,
          products, price_history>>

\* check_interval = 60, in minutes
CheckInterval == 60
\* time.sleep(300) after a failed cycle
RetrySecs == 300

Init ==
    /\ pc = "start"
    /\ db_conn = "none"
    /\ open_conns = 0
    /\ stock_data = "none"
    /\ product = NoItem
    /\ outcome = "none"
    /\ logged = {}
    /\ sleep_secs = 0
    /\ products = {}
    /\ price_history = <<>>

\* CycleFailed as sys.exit(1), the way setup_db's main ends on a failure
CycleFailedExit(lines) ==
    /\ logged' = lines \cup {"cycle_failed"}
    /\ sleep_secs' = 0
    /\ pc' = "exit"

\* CycleFailed with the exception swallowed: nothing logged
CycleFailedSilent(lines) ==
    /\ logged' = {}
    /\ sleep_secs' = RetrySecs
    /\ pc' = "sleep"

\* main's except branch: log, sleep 300 seconds
CycleFailed(lines) ==
    /\ logged' = lines \cup {"cycle_failed"}
    /\ sleep_secs' = RetrySecs
    /\ pc' = "sleep"

\* the finally of track_prices without the close
FinallyLeavesOpen(conn) == conn

\* finally: if self.db_conn: self.db_conn.close()
Finally(conn) == IF conn = "open" THEN "closed" ELSE conn

\* the finally of track_prices on the tracker's connection and on the count
\* of open connections
CloseConnection ==
    /\ db_conn' = Finally(db_conn)
    /\ open_conns' = IF db_conn = "open" /\ Finally(db_conn) # "open"
                     THEN open_conns - 1 ELSE open_conns

\* tracker = PriceTracker(): __init__ sets db_conn to None and calls
\* connect_db, which opens a connection or logs and raises
connect_db ==
    /\ pc = "start"
    /\ \/ /\ db_conn' = "open"
          /\ open_conns' = open_conns + 1
          /\ logged' = {"db_connected"}
          /\ pc' = "fetch"
          /\ UNCHANGED sleep_secs
       \/ /\ db_conn' = "none"
          /\ CycleFailed({"db_connect_failed"})
          /\ UNCHANGED open_conns
    /\ UNCHANGED <<stock_data, product, outcome, products, price_history>>

\* the response bodies that parse to a dict: with a "stock" list, without
\* the "stock" key
Bodies == {"stock_list", "no_stock"}

\* StockList that takes the whole body when the key is missing
StockListWhole(body) == "items"

\* products = stock_data.get('stock', []): "items" for the list under the
\* key (of any length), "empty" for the default []
StockList(body) == IF body = "stock_list" THEN "items" ELSE "empty"

\* track_prices up to the for loop: fetch_stock_data and stock_data.get.
\* A request error is logged by fetch_stock_data and by track_prices; a body
\* that is no JSON or no dict raises past fetch_stock_data's except and is
\* logged by track_prices alone.
fetch_stock_data ==
    /\ pc = "fetch"
    /\ \/ \E body \in Bodies :
            /\ stock_data' = body
            /\ logged' = {"fetched"}
            /\ pc' = IF StockList(body) = "items" THEN "loop" ELSE "loop_end"
            /\ UNCHANGED <<db_conn, open_conns, sleep_secs>>
       \/ \E lines \in {{"fetch_failed", "tracking_failed"}, {"tracking_failed"}} :
            /\ CycleFailed(lines)
            /\ CloseConnection
            /\ UNCHANGED stock_data
    /\ UNCHANGED <<product, outcome, products, price_history>>

\* one pass of the for loop body: update_product(product) and the except
\* around it, whose product.get raises for an element that is no dict
\* Every database call raises on a connection that is not open.
loop_body ==
    /\ pc = "loop"
    /\ \E item \in Items, fault \in Faults :
       \E r \in {update_product(Tables(products, price_history), item,
                                IF db_conn = "open" THEN fault ELSE "select")} :
         /\ Len(r.tables.price_history) <= MaxHist
         /\ products' = r.tables.products
         /\ price_history' = r.tables.price_history
         /\ product' = item
         /\ outcome' = r.outcome
         /\ IF r.raised /\ item.kind # "dict"
            THEN /\ CycleFailed(r.logged \cup {"tracking_failed"})
                 /\ CloseConnection
            ELSE /\ logged' = r.logged \cup (IF r.raised THEN {"item_failed"} ELSE {})
                 /\ UNCHANGED <<pc, db_conn, open_conns, sleep_secs>>
    /\ UNCHANGED stock_data

\* the list is exhausted: track_prices ends, main sleeps the poll interval
track_prices_done ==
    /\ pc \in {"loop", "loop_end"}
    /\ logged' = {"completed", "waiting"}
    /\ CloseConnection
    /\ sleep_secs' = CheckInterval * 60
    /\ pc' = "sleep"
    /\ product' = NoItem
    /\ outcome' = "none"
    /\ UNCHANGED <<stock_data, products, price_history>>

\* time.sleep returns; while True starts the next cycle
wake ==
    /\ pc = "sleep"
    /\ pc' = "start"
    /\ sleep_secs' = 0
    /\ logged' = {}
    /\ stock_data' = "none"
    /\ UNCHANGED <<db_conn, open_conns, product, outcome, products, price_history>>

Next ==
    \/ connect_db
    \/ fetch_stock_data
    \/ loop_body
    \/ track_prices_done
    \/ wake

Spec == Init /\ [][Next]_vars

\* ================================================================ claims
\* the history rows of one sku, in order
HistoryOf(h, sku) == SelectSeq(h, LAMBDA e : e.sku = sku)

\* this step is one update_product call (track_prices_done leaves outcome "none")
Called == pc = "loop" /\ outcome' # "none"

\* ... that committed
Succeeded == Called /\ outcome' # "Failed"

\* the sku has a row in the committed table before the step
Known(sku) == RowsOf(products, sku) # {}

\* a and b denote the same number (both brought to the longer scale)
SameValue(a, b) ==
    LET m == IF a.scale > b.scale THEN a.scale ELSE b.scale
    IN  a.coef * Pow10(m - a.scale) = b.coef * Pow10(m - b.scale)

\* d rounded to two places, halves up: floor(100 d + 1/2) hundredths
RoundedPrice(d) ==
    Dec((2 * d.coef * Pow10(PriceScale) + Pow10(d.scale)) \div (2 * Pow10(d.scale)),
        PriceScale)

\* the sku has exactly one row after the step, with this price and stock
OneRowAfter(sku, price, stock) ==
    /\ Cardinality(RowsOf(products', sku)) = 1
    /\ \A r \in RowsOf(products', sku) : r.current_price = price /\ r.stock_level = stock

\* C1 as stated: a successful call for a sku that has no row leaves exactly
\* one row and exactly one history row for the sku, both with the observed
\* stock level and with a price equal to the observed price.
C1_AsStated ==
    [][(Succeeded /\ ~Known(product'.sku)) =>
         LET h == HistoryOf(price_history', product'.sku) IN
         /\ Cardinality(RowsOf(products', product'.sku)) = 1
         /\ \A r \in RowsOf(products', product'.sku) :
              SameValue(r.current_price, product'.price)
              /\ r.stock_level = product'.in_stock
         /\ Len(h) = 1
         /\ SameValue(h[1].price, product'.price)
         /\ h[1].stock_level = product'.in_stock]_vars

\* C1 amended: a successful call for a sku that has no row leaves exactly
\* one row and exactly one history row for the sku, both with the observed
\* stock level and with the observed price rounded to two decimal places.
C1_NewItem ==
    [][(Succeeded /\ ~Known(product'.sku)) =>
         /\ OneRowAfter(product'.sku, RoundedPrice(product'.price), product'.in_stock)
         /\ HistoryOf(price_history', product'.sku)
              = <<[sku |-> product'.sku, price |-> RoundedPrice(product'.price),
                   stock_level |-> product'.in_stock]>>]_vars

\* a first observation whose price has more places than the column keeps
C1_Witness ==
    /\ outcome = "Inserted"
    /\ product.price.scale > PriceScale
    /\ ~SameValue(RoundedPrice(product.price), product.price)
    /\ Len(HistoryOf(price_history, product.sku)) = 1
    /\ Cardinality(products) = 2

\* the stored price of the sku differs from the observed one before the step
StoredDiffers ==
    \E r \in RowsOf(products, product'.sku) : ~SameValue(r.current_price, product'.price)

\* C2 as stated: a successful call for a known sku whose observed price
\* differs from the stored price appends exactly one history row with the
\* new price and the observed stock, sets the row's price to the new price
\* and leaves the earlier history rows as they were.
C2_AsStated ==
    [][(Succeeded /\ StoredDiffers) =>
         LET n == Len(price_history) IN
         /\ Len(price_history') = n + 1
         /\ SubSeq(price_history', 1, n) = price_history
         /\ price_history'[n + 1].sku = product'.sku
         /\ SameValue(price_history'[n + 1].price, product'.price)
         /\ price_history'[n + 1].stock_level = product'.in_stock
         /\ \A r \in RowsOf(products', product'.sku) :
              SameValue(r.current_price, product'.price)]_vars

\* C2 amended: ... appends exactly one history row with the new price
\* rounded to two decimal places and the observed stock, sets the row's price
\* to the new price rounded to two decimal places, and leaves the earlier
\* history rows as they were.
C2_PriceChanged ==
    [][(Succeeded /\ StoredDiffers) =>
         /\ price_history'
              = Append(price_history,
                       [sku |-> product'.sku, price |-> RoundedPrice(product'.price),
                        stock_level |-> product'.in_stock])
         /\ OneRowAfter(product'.sku, RoundedPrice(product'.price), product'.in_stock)]_vars

\* a price change by one cent, recorded after the first history row
C2_Witness ==
    /\ outcome = "UpdatedWithHistory"
    /\ product.price = Dec(2, 2)
    /\ Len(HistoryOf(price_history, product.sku)) = 2
    /\ HistoryOf(price_history, product.sku)[1].price = Dec(1, 2)
    /\ HistoryOf(price_history, product.sku)[2].price = Dec(2, 2)

\* C3: a successful call for a known sku whose observed price equals the
\* stored price sets the row's stock level to the observed one, keeps the
\* price and appends no history row, also when the stock level changed.
C3_PriceUnchanged ==
    [][(Succeeded /\ Known(product'.sku) /\ ~StoredDiffers) =>
         /\ price_history' = price_history
         /\ \A r \in RowsOf(products, product'.sku) :
              OneRowAfter(product'.sku, r.current_price, product'.in_stock)]_vars

\* the stock level changed and the history still ends with the old one
C3_Witness ==
    /\ outcome = "UpdatedNoHistory"
    /\ LET h == HistoryOf(price_history, product.sku) IN
       /\ Len(h) = 1
       /\ h[1].stock_level # product.in_stock
       /\ \E r \in products : r.sku = product.sku /\ r.stock_level = product.in_stock

\* C4 as stated: a second successful call with the item of the call just
\* before it changes neither table, whatever the observed price.
C4_Idempotent ==
    [][(Succeeded /\ outcome \notin {"none", "Failed"} /\ product' = product) =>
         (products' = products /\ price_history' = price_history)]_vars

\* C5: for a known sku a history row is appended exactly when the stored and
\* the observed price denote different numbers: trailing zeros do not make
\* two prices differ, and any differing digit does.
C5_ExactComparison ==
    [][(Succeeded /\ Known(product'.sku)) =>
         /\ StoredDiffers <=> price_history' # price_history
         /\ StoredDiffers <=> outcome' = "UpdatedWithHistory"]_vars

\* 0.010 observed for a stored 0.01: no history row
C5_Witness ==
    /\ outcome = "UpdatedNoHistory"
    /\ product.price.scale > PriceScale
    /\ \E r \in products : r.sku = product.sku /\ r.current_price # product.price
                           /\ SameValue(r.current_price, product.price)

\* C6 as stated: whatever makes one update_product call fail, the failure is
\* logged by the loop, the tables are as before the call, and the for loop
\* goes on with the connection open, so the later elements are reconciled.
C6_BatchContinues ==
    [][(Called /\ outcome' = "Failed") =>
         /\ pc' = "loop"
         /\ db_conn' = "open"
         /\ "item_failed" \in logged'
         /\ products' = products
         /\ price_history' = price_history]_vars

\* every row has history, every history row has a row, and the latest
\* history price of a sku is its row's price
Paired(p, h) ==
    /\ \A r \in p : LET hs == HistoryOf(h, r.sku) IN
                    Len(hs) > 0 /\ hs[Len(hs)].price = r.current_price
    /\ \A i \in 1 .. Len(h) : RowsOf(p, h[i].sku) # {}

\* C7: a failed update_product call, at whatever statement it fails, leaves
\* both committed tables as they were; and after every call no row is
\* without its history row and no row's price is without its history row.
C7_Atomic ==
    [][Called =>
         /\ outcome' = "Failed" => (products' = products /\ price_history' = price_history)
         /\ Paired(products', price_history')]_vars

\* a call that failed at the commit, after UPDATE and INSERT had run
C7_Witness ==
    /\ outcome = "Failed"
    /\ "price_change" \in logged
    /\ \E r \in products : r.sku = product.sku
                           /\ r.current_price # RoundedPrice(product.price)
                           /\ r.stock_level # product.in_stock

\* C8 as stated: every sku with a row has a history row, and two consecutive
\* history rows of one sku never have the same stored price.
C8_HistoryOnChange ==
    \A sku \in SKUs :
        LET hs == HistoryOf(price_history, sku) IN
        /\ RowsOf(products, sku) # {} => Len(hs) > 0
        /\ \A i \in 1 .. Len(hs) - 1 : hs[i].price # hs[i + 1].price

\* every sku has at most one row after the step; a call that committed left
\* the row of its sku with the given price and its stock and the other rows
\* alone; every other step left the table alone
CurrentStateStep(PriceOk(_, _)) ==
    /\ \A sku \in SKUs : Cardinality(RowsOf(products', sku)) <= 1
    /\ IF Succeeded
       THEN /\ RowsOf(products', product'.sku) # {}
            /\ \A r \in RowsOf(products', product'.sku) :
                 PriceOk(r.current_price, product'.price)
                 /\ r.stock_level = product'.in_stock
            /\ \A sku \in SKUs \ {product'.sku} :
                 RowsOf(products', sku) = RowsOf(products, sku)
       ELSE products' = products

RoundedEq(stored, observed) == stored = RoundedPrice(observed)

\* C9 as stated: at most one row per sku, and the row's price and stock
\* equal those of the latest observation of the sku that committed.
C9_AsStated == [][CurrentStateStep(SameValue)]_vars

\* C9 amended: at most one row per sku, and the row's stock equals the
\* stock, and its price the price rounded to two decimal places, of the
\* latest observation of the sku that committed.
C9_CurrentState == [][CurrentStateStep(RoundedEq)]_vars

\* a sku observed again, with another stock and a price of three places
C9_Witness ==
    /\ outcome = "UpdatedWithHistory"
    /\ product.price.scale > PriceScale
    /\ LET hs == HistoryOf(price_history, product.sku) IN
       /\ hs[1].stock_level # product.in_stock
       /\ hs[1].price # RoundedPrice(product.price)
       /\ \E r \in products : /\ r.sku = product.sku
                              /\ r.stock_level = product.in_stock
                              /\ r.current_price = RoundedPrice(product.price)

\* C10: every step leaves the history rows already there as they were and
\* in place; rows are only added at the end.
C10_AppendOnly ==
    [][/\ Len(price_history') >= Len(price_history)
       /\ SubSeq(price_history', 1, Len(price_history)) = price_history]_vars

\* two history rows of one sku, the second appended after the first
C10_Witness ==
    /\ Len(price_history) = 2
    /\ price_history[1].sku = price_history[2].sku
    /\ price_history[1].price # price_history[2].price

\* C11: at most one connection is open at any time; between cycles (during
\* the wait and before PriceTracker() is built) none is open, whichever way
\* the cycle ended; while a cycle fetches and reconciles, the one open
\* connection is the one its own tracker opened.
C11_ConnectionPerCycle ==
    /\ open_conns \in {0, 1}
    /\ pc \in {"sleep", "start"} => (open_conns = 0 /\ db_conn # "open")
    /\ pc \in {"fetch", "loop", "loop_end"} => (open_conns = 1 /\ db_conn = "open")

\* the wait after a batch that an element aborted: the connection is closed
C11_Witness ==
    /\ pc = "sleep"
    /\ db_conn = "closed"
    /\ open_conns = 0
    /\ outcome = "Failed"
    /\ product.kind = "str"

\* this step ends the cycle
CycleEnds ==
    /\ pc \in {"start", "fetch", "loop", "loop_end"}
    /\ pc' \notin {"fetch", "loop", "loop_end"}

C13_FailuresLogged ==
    [][/\ (Called /\ outcome' = "Failed") =>
            logged' \cap {"update_error", "item_failed", "tracking_failed"} # {}
       /\ (pc = "fetch" /\ CycleEnds) =>
            logged' \cap {"fetch_failed", "tracking_failed"} # {}
       /\ (pc = "start" /\ CycleEnds) => "db_connect_failed" \in logged'
       /\ (CycleEnds /\ "completed" \notin logged') => "cycle_failed" \in logged']_vars

\* an element for which neither update_product nor the loop writes its line
C13_Witness ==
    /\ outcome = "Failed"
    /\ product.kind = "str"
    /\ "update_error" \notin logged
    /\ "item_failed" \notin logged
    /\ "tracking_failed" \in logged
    /\ "cycle_failed" \in logged

\* C14: a committed call for a known sku leaves the model, color, ean and
\* category of its row as they were, whatever the item carries, and leaves
\* the rows and the history rows of every other sku as they were.
C14_DescriptionKept ==
    [][(Succeeded /\ Known(product'.sku)) =>
         /\ Cardinality(RowsOf(products', product'.sku)) = 1
         /\ \A r \in RowsOf(products, product'.sku) :
              \A r2 \in RowsOf(products', product'.sku) :
                 /\ r2.model = r.model
                 /\ r2.color = r.color
                 /\ r2.ean = r.ean
                 /\ r2.category = r.category
         /\ \A sku \in SKUs \ {product'.sku} :
              /\ RowsOf(products', sku) = RowsOf(products, sku)
              /\ HistoryOf(price_history', sku) = HistoryOf(price_history, sku)]_vars

\* a known sku observed under another model, color, ean and category, next
\* to the row of another sku
C14_Witness ==
    /\ outcome = "UpdatedNoHistory"
    /\ Cardinality(products) = 2
    /\ \E r \in products :
         /\ r.sku = product.sku
         /\ r.stock_level = product.in_stock
         /\ r.model # product.model
         /\ r.color # product.color
         /\ r.ean # (IF "ean" \in product.keys THEN product.ean ELSE "")
         /\ r.category # (IF "cat_name" \in product.keys THEN product.cat_name ELSE "")

\* C15: no step of a cycle before its list is fetched (building the
\* tracker, fetching and parsing, whether they fail or not) and no step of a
\* cycle whose body has no "stock" key changes either table, and such a
\* cycle makes no update_product call.
C15_NothingReconciled ==
    [][(pc \in {"start", "fetch"} \/ stock_data = "no_stock" \/ stock_data' = "no_stock") =>
         /\ products' = products
         /\ price_history' = price_history
         /\ ~Called]_vars

\* a completed cycle whose body had no "stock" key, on tables an earlier
\* cycle filled
C15_Witness ==
    /\ pc = "sleep"
    /\ stock_data = "no_stock"
    /\ "completed" \in logged
    /\ Cardinality(products) = 2
    /\ Len(price_history) = 2

\* C16: in every committed state each row's price is the price of the
\* latest history row of its sku, and each history row's sku has a row.
C16_HistoryMatchesCurrent ==
    /\ \A r \in products :
         \E i \in 1 .. Len(price_history) :
            /\ price_history[i].sku = r.sku
            /\ price_history[i].price = r.current_price
            /\ \A j \in (i + 1) .. Len(price_history) : price_history[j].sku # r.sku
    /\ \A i \in 1 .. Len(price_history) :
         \E r \in products : r.sku = price_history[i].sku

\* the latest history row of a sku has its row's price and another stock
C16_Witness ==
    /\ Len(price_history) = 2
    /\ \E r \in products :
         /\ r.sku = price_history[2].sku
         /\ r.sku = price_history[1].sku
         /\ r.current_price = price_history[2].price
         /\ r.current_price # price_history[1].price
         /\ r.stock_level # price_history[2].stock_level

====
